---- MODULE Spec2Model ----
(***************************************************************************)
(* A model of the Flask application DIP/app.py: the upload folder, the     *)
(* four operation handler objects the dispatcher reflects over, and the    *)
(* request handlers upload_file, process_image, save_processed,            *)
(* get_available_operations and clear_uploads.  process_image is modelled  *)
(* one loop iteration at a time.  Spec serves one request at a time, as    *)
(* the application does for a single client; clear_uploads alone may run   *)
(* between two steps of a pipeline.                                        *)
(***************************************************************************)
EXTENDS Integers, Sequences, FiniteSets, TLC

\* ------------------------------------------------------------------ bounds

\* Longest 'operations' list of a process request.
MaxOps == 3

\* ------------------------------------------------- the operation handlers

\* Public methods of class BasicOperations.
BasicOperationsMethods ==
    {"grayscale", "negative", "threshold", "adjust_brightness",
     "adjust_contrast", "gaussian_blur", "median_blur", "bilateral_filter",
     "histogram_equalization", "sharpen"}

\* Public methods of class AdvancedOperations.
AdvancedOperationsMethods ==
    {"retinex", "clahe", "fourier_transform", "frequency_filter"}

\* Methods of class MorphologicalOperations; the private helper __get_kernel
\* is an attribute under its mangled name.
MorphologicalOperationsMethods ==
    {"_MorphologicalOperations__get_kernel", "erosion", "dilation", "opening",
     "closing", "gradient", "top_hat", "black_hat"}

\* Public methods of class SegmentationOperations.
SegmentationOperationsMethods ==
    {"canny_edge", "sobel_edge", "watershed", "contour_detection",
     "orb_keypoints"}

\* Classes of the modules package that app.py neither imports nor
\* instantiates.
ColorProcessingMethods ==
    {"rgb_to_hsv", "rgb_to_lab", "rgb_to_ycrcb", "channel_separation",
     "color_quantization"}

FrequencyDomainMethods ==
    {"visualize_spectrum", "bandpass_filter", "notch_filter"}

RestorationOperationsMethods ==
    {"add_degradation", "wiener_deconvolution", "inpainting"}

\* What dir() lists for every instance besides the methods of its class:
\* the attributes inherited from object and the class's own __dict__,
\* __doc__, __module__ and __weakref__.
ObjectAttrs ==
    {"__class__", "__delattr__", "__dict__", "__dir__", "__doc__", "__eq__",
     "__format__", "__ge__", "__getattribute__", "__gt__", "__hash__",
     "__init__", "__init_subclass__", "__le__", "__lt__", "__module__",
     "__ne__", "__new__", "__reduce__", "__reduce_ex__", "__repr__",
     "__setattr__", "__sizeof__", "__str__", "__subclasshook__",
     "__weakref__"}

\* The handler objects app.py creates, in the order the dispatcher's
\* if/elif chain asks them.
HandlerOrder ==
    <<"basic_ops", "advanced_ops", "morphological_ops", "segmentation_ops">>

HandlerNames == {HandlerOrder[i] : i \in DOMAIN HandlerOrder}

\* The category get_available_operations lists each handler under.
CategoryOf(h) ==
    CASE h = "basic_ops" -> "basic"
      [] h = "advanced_ops" -> "advanced"
      [] h = "morphological_ops" -> "morphological"
      [] h = "segmentation_ops" -> "segmentation"

Categories == {CategoryOf(h) : h \in HandlerNames}

HandlerOfCategory(c) == CHOOSE h \in HandlerNames : CategoryOf(h) = c

\* dir(handler) right after the module-level construction.
InitialHandlers ==
    [h \in HandlerNames |->
        ObjectAttrs \cup
        (CASE h = "basic_ops" -> BasicOperationsMethods
           [] h = "advanced_ops" -> AdvancedOperationsMethods
           [] h = "morphological_ops" -> MorphologicalOperationsMethods
           [] h = "segmentation_ops" -> SegmentationOperationsMethods)]

\* str.startswith('_')
StartsWithUnderscore(name) ==
    name \in ObjectAttrs \/ name = "_MorphologicalOperations__get_kernel"

\* The value of op.get('type') when the entry has no 'type'; formatted into
\* a message it reads "None".
NoneType == "None"

\* The if/elif chain of process_image: the first handler whose dir() holds
\* op_type, or "none" when the else branch is taken.
Resolve(reg, op_type) ==
    IF op_type \in reg["basic_ops"] THEN "basic_ops"
    ELSE IF op_type \in reg["advanced_ops"] THEN "advanced_ops"
    ELSE IF op_type \in reg["morphological_ops"] THEN "morphological_ops"
    ELSE IF op_type \in reg["segmentation_ops"] THEN "segmentation_ops"
    ELSE "none"

\* ------------------------------------------------------------------ images

\* An image is [h, w, px]: px holds the h*w pixels row by row, each pixel
\* <<b, g, r>> of 8-bit samples (cv2.imread yields 3-channel BGR).
\* NoImage stands for the None that cv2.imread returns.
NoImage == [h |-> 0, w |-> 0, px |-> <<>>]

ImgA == [h |-> 1, w |-> 2, px |-> << <<10, 200, 100>>, <<255, 255, 255>> >>]

ImgB == [h |-> 2, w |-> 1, px |-> << <<0, 0, 0>>, <<40, 90, 160>> >>]

SourceImages == {ImgA, ImgB}

\* cv2.COLOR_BGR2GRAY: Y = 0.299*R + 0.587*G + 0.114*B, rounded.
Luma(p) == (299 * p[3] + 587 * p[2] + 114 * p[1] + 500) \div 1000

\* cv2.COLOR_GRAY2BGR applied to the gray value y.
GrayToBgr(y) == <<y, y, y>>

\* Mutant: cv2.THRESH_TRUNC
ThresholdTrunc(y, threshold_value, max_value) ==
    IF y > threshold_value THEN threshold_value ELSE y

\* cv2.THRESH_BINARY
ThresholdBinary(y, threshold_value, max_value) ==
    IF y > threshold_value THEN max_value ELSE 0

\* A parameter set is a set of <<name, value>> pairs, one per name.
ParamNames(params) == {kv[1] : kv \in params}

ParamGet(params, name, default) ==
    IF name \in ParamNames(params)
    THEN (CHOOSE kv \in params : kv[1] = name)[2]
    ELSE default

\* What a call returns to the dispatcher: a pair it can unpack, or an
\* exception (also the TypeError of unpacking something that is no pair).
Returned(image, description) ==
    [raised |-> FALSE, image |-> image, description |-> description,
     cause |-> ""]

Raised(cause) ==
    [raised |-> TRUE, image |-> NoImage, description |-> "", cause |-> cause]

\* The keyword parameters each modelled method declares besides image.
Keywords(op_type) ==
    CASE op_type = "grayscale" -> {}
      [] op_type = "negative" -> {}
      [] op_type = "threshold" ->
            {"threshold_value", "max_value", "threshold_type"}
      [] op_type = "frequency_filter" -> {"filter_type", "cutoff_freq"}
      [] op_type = "fourier_transform" -> {}
      [] op_type = "histogram_equalization" -> {}
      [] op_type = "erosion" -> {"kernel_size", "kernel_shape", "iterations"}
      [] op_type = "watershed" -> {}
      [] op_type = "adjust_brightness" -> {"beta"}
      [] op_type = "gaussian_blur" -> {"kernel_size", "sigma_x"}
      [] op_type = "median_blur" -> {"kernel_size"}
      [] op_type = "sharpen" -> {"kernel_size", "strength"}

\* Mutant: the negative is taken from 256 and saturated.
NegativePixelOffByOne(p) ==
    [ch \in 1..3 |-> IF p[ch] = 0 THEN 255 ELSE 256 - p[ch]]

\* 255 - image, sample by sample
NegativePixel(p) == <<255 - p[1], 255 - p[2], 255 - p[3]>>

grayscale(image) ==
    Returned([image EXCEPT !.px =
                 [k \in DOMAIN image.px |-> GrayToBgr(Luma(image.px[k]))]],
             "Grayscale Conversion")

negative(image) ==
    Returned([image EXCEPT !.px =
                 [k \in DOMAIN image.px |-> NegativePixel(image.px[k])]],
             "Negative Image")

threshold(image, params) ==
    LET threshold_value == ParamGet(params, "threshold_value", 127)
        max_value == ParamGet(params, "max_value", 255)
    IN Returned([image EXCEPT !.px =
                    [k \in DOMAIN image.px |->
                        GrayToBgr(ThresholdBinary(Luma(image.px[k]),
                                                  threshold_value, max_value))]],
                "Thresholding (Binary)")

\* frequency_filter ends after building its description, without a return
\* statement: the call yields None, which the dispatcher cannot unpack.
frequency_filter(image, params) ==
    Raised("cannot unpack non-iterable NoneType object")

\* The image of h rows and w columns whose pixels all are p.
Uniform(h, w, p) == [h |-> h, w |-> w, px |-> [k \in 1..(h * w) |-> p]]

\* The sample at row r, column c (from 0) of a sequence of cols columns.
At(seq, cols, r, c) == seq[r * cols + c + 1]

IsPrime(p) == p > 1 /\ \A d \in 2..(p - 1) : p % d # 0

\* cv2.getOptimalDFTSize(n): the least m >= n whose prime factors are among
\* 2, 3 and 5.
IsDFTSize(m) == \A p \in 2..m : (m % p = 0 /\ IsPrime(p)) => p \in {2, 3, 5}

getOptimalDFTSize(n) ==
    CHOOSE m \in n..(2 * n) : IsDFTSize(m) /\ \A k \in n..(m - 1) : ~IsDFTSize(k)

\* cv2.dft, np.fft.fftshift, 20*log(magnitude + 1) and cv2.normalize(0, 255,
\* NORM_MINMAX) on the padded gray samples, where the result is exact: an
\* all-zero signal has an all-zero spectrum, which NORM_MINMAX maps to 0;
\* two samples a, b have the magnitudes |a - b| (shifted to the front) and
\* a + b, which NORM_MINMAX maps to 0 and 255 unless they are equal.
MagnitudeSpectrum(padded) ==
    CASE \A k \in DOMAIN padded : padded[k] = 0 ->
            [k \in DOMAIN padded |-> 0]
      [] Len(padded) = 2 /\ \E k \in DOMAIN padded : padded[k] # 0 ->
            IF padded[1] > 0 /\ padded[2] > 0 THEN <<0, 255>> ELSE <<0, 0>>

fourier_transform(image) ==
    LET rows == image.h
        cols == image.w
        gray == [k \in DOMAIN image.px |-> Luma(image.px[k])]
        optimal_rows == getOptimalDFTSize(rows)
        optimal_cols == getOptimalDFTSize(cols)
        padded == [k \in 1..(optimal_rows * optimal_cols) |->
                      LET r == (k - 1) \div optimal_cols
                          c == (k - 1) % optimal_cols
                      IN IF r < rows /\ c < cols
                         THEN At(gray, cols, r, c)
                         ELSE 0]
        magnitude_spectrum == MagnitudeSpectrum(padded)
    IN Returned([h |-> optimal_rows, w |-> optimal_cols,
                 px |-> [k \in DOMAIN magnitude_spectrum |->
                            GrayToBgr(magnitude_spectrum[k])]],
                "Fourier Transform (Magnitude Spectrum)")

\* The half-width cv2.getStructuringElement gives the row dy off the centre
\* of an ellipse of radius r: sqrt(r*r - dy*dy), rounded.
EllipseDx(r, dy) ==
    CHOOSE d \in 0..r :
        /\ 4 * (r * r - dy * dy) < (2 * d + 1) * (2 * d + 1)
        /\ d = 0 \/ (2 * d - 1) * (2 * d - 1) <= 4 * (r * r - dy * dy)

\* cv2.getStructuringElement(shape, (ksize, ksize)): the <<row, column>>
\* positions (from 0) of the elements that are 1.
getStructuringElement(shape, ksize) ==
    LET anchor == ksize \div 2
        cells == (0..(ksize - 1)) \X (0..(ksize - 1))
    IN CASE shape = "MORPH_RECT" -> cells
         [] shape = "MORPH_CROSS" ->
               {e \in cells : e[1] = anchor \/ e[2] = anchor}
         [] shape = "MORPH_ELLIPSE" ->
               {e \in cells :
                   LET dx == EllipseDx(anchor, e[1] - anchor)
                   IN /\ e[2] >= anchor - dx
                      /\ e[2] < anchor + dx + 1}

\* MorphologicalOperations.__get_kernel
get_kernel(kernel_shape, kernel_size) ==
    IF kernel_shape = "rect"
    THEN getStructuringElement("MORPH_RECT", kernel_size)
    ELSE IF kernel_shape = "ellipse"
    THEN getStructuringElement("MORPH_ELLIPSE", kernel_size)
    ELSE IF kernel_shape = "cross"
    THEN getStructuringElement("MORPH_CROSS", kernel_size)
    ELSE getStructuringElement("MORPH_RECT", kernel_size)

Min(S) == CHOOSE x \in S : \A y \in S : x <= y

Max(S) == CHOOSE x \in S : \A y \in S : x >= y

\* Mutant: pixels outside the image count as black.
ErodeBorderValueBlack == Min(0..255)

\* The sample cv2.erode takes for positions outside the image: with the
\* default borderValue, the largest value of the type.
ErodeBorderValue == Max(0..255)

\* One pass of cv2.erode: each sample becomes the least sample under the
\* kernel, which is anchored at its centre.
ErodeOnce(image, kernel, ksize) ==
    LET anchor == ksize \div 2
        Sample(r, c, ch) ==
            IF r >= 0 /\ r < image.h /\ c >= 0 /\ c < image.w
            THEN At(image.px, image.w, r, c)[ch]
            ELSE ErodeBorderValue
        Eroded(r, c, ch) ==
            Min({Sample(r + e[1] - anchor, c + e[2] - anchor, ch) : e \in kernel})
    IN [image EXCEPT !.px =
           [k \in DOMAIN image.px |->
               LET r == (k - 1) \div image.w
                   c == (k - 1) % image.w
               IN <<Eroded(r, c, 1), Eroded(r, c, 2), Eroded(r, c, 3)>>]]

RECURSIVE Erode(_, _, _, _)
\* cv2.erode(image, kernel, iterations=iterations)
Erode(image, kernel, ksize, iterations) ==
    IF iterations <= 0
    THEN image
    ELSE Erode(ErodeOnce(image, kernel, ksize), kernel, ksize, iterations - 1)

erosion(image, params) ==
    LET kernel_size == ParamGet(params, "kernel_size", 5)
        kernel_shape == ParamGet(params, "kernel_shape", "rect")
        iterations == ParamGet(params, "iterations", 1)
        kernel == get_kernel(kernel_shape, kernel_size)
    IN Returned(Erode(image, kernel, kernel_size, iterations), "Erosion")

\* saturate_cast<uchar>(sum * scale) with scale = 255 / den: the nearest
\* integer, the even one of two equally near.
RoundedLevel(sum, den) ==
    LET q == (255 * sum) \div den
        rem == (255 * sum) % den
    IN IF 2 * rem < den THEN q
       ELSE IF 2 * rem > den THEN q + 1
       ELSE IF q % 2 = 0 THEN q ELSE q + 1

\* cv2.equalizeHist on a sequence of 8-bit samples: samples all equal stay;
\* otherwise the least level goes to 0 and a level v to the share of the
\* samples above the least level that are at most v.
EqualizeHist(samples) ==
    LET least == Min({samples[k] : k \in DOMAIN samples})
        Count(v) == Cardinality({k \in DOMAIN samples :
                                    samples[k] > least /\ samples[k] <= v})
        above == Cardinality({k \in DOMAIN samples : samples[k] > least})
    IN IF above = 0
       THEN samples
       ELSE [k \in DOMAIN samples |-> RoundedLevel(Count(samples[k]), above)]

\* histogram_equalization, colour branch, for the images whose pixels are
\* gray (b = g = r = y): COLOR_BGR2YCrCb gives (y, 128, 128), the Y channel
\* is equalized, and COLOR_YCrCb2BGR of (y', 128, 128) gives (y', y', y').
histogram_equalization(image) ==
    CASE \A k \in DOMAIN image.px :
             image.px[k][1] = image.px[k][2] /\ image.px[k][2] = image.px[k][3] ->
        LET ycrcb == [k \in DOMAIN image.px |-> image.px[k][3]]
            equalized == EqualizeHist(ycrcb)
        IN Returned([image EXCEPT !.px =
                        [k \in DOMAIN image.px |-> GrayToBgr(equalized[k])]],
                    "Histogram Equalization")

\* The colours np.random.randint(0, 256) may give, three draws a colour: a
\* sample of the 256^3 triples.
RandomColors == { <<10, 20, 30>>, <<200, 100, 50>> }

\* The markers after cv2.watershed, for images with no inner pixel or with
\* one (3 by 3). cv2.watershed marks the pixels of the outer rows and
\* columns -1. The inner pixel of a 3 by 3 image: Otsu's inverted threshold
\* makes a black image all foreground, which opening, distance transform
\* and connectedComponents label 1, hence marker 2; in any other 3 by 3
\* image the brightest pixel becomes background, two erosions by the 3 by 3
\* kernel clear the rest, and every marker is 1.
WatershedMarkers(image) ==
    CASE image.h < 3 \/ image.w < 3 \/ (image.h = 3 /\ image.w = 3) ->
        [k \in DOMAIN image.px |->
            LET r == (k - 1) \div image.w
                c == (k - 1) % image.w
            IN IF r = 0 \/ r = image.h - 1 \/ c = 0 \/ c = image.w - 1
               THEN -1
               ELSE IF \A j \in DOMAIN image.px : Luma(image.px[j]) = 0
               THEN 2
               ELSE 1]

\* for i in range(max_labels + 1): the number of colours watershed draws.
WatershedColors(image) ==
    LET markers == WatershedMarkers(image)
        max_labels == Max({markers[k] : k \in DOMAIN markers})
    IN IF max_labels + 1 > 0 THEN max_labels + 1 ELSE 0

\* watershed, given the colours it drew: the segments 2.. are painted in
\* their colours, then the boundaries in red.
watershed(image, colors) ==
    LET markers == WatershedMarkers(image)
    IN Returned([image EXCEPT !.px =
                    [k \in DOMAIN image.px |->
                        IF markers[k] = -1 THEN <<0, 0, 255>>
                        ELSE IF markers[k] >= 2 THEN colors[markers[k] + 1]
                        ELSE image.px[k]]],
                "Watershed Segmentation")

\* cv2.convertScaleAbs on one 8-bit sample, for integer alpha and beta: the
\* absolute value of f * alpha + beta, saturated to 255.
ConvertScaleAbs(f, alpha, beta) ==
    LET v == f * alpha + beta
    IN Min({255, IF v < 0 THEN -v ELSE v})

adjust_brightness(image, params) ==
    LET beta == ParamGet(params, "beta", 50)
    IN Returned([image EXCEPT !.px =
                    [k \in DOMAIN image.px |->
                        [ch \in 1..3 |->
                            ConvertScaleAbs(image.px[k][ch], 1, beta)]]],
                "Brightness Adjustment")

\* Mutant: the kernel size is used as given.
OddKernelSizeAsGiven(kernel_size) == kernel_size

\* if kernel_size % 2 == 0: kernel_size += 1
OddKernelSize(kernel_size) ==
    IF kernel_size % 2 = 0 THEN kernel_size + 1 ELSE kernel_size

\* Whether every pixel of the image equals the first.
AllPixelsEqual(image) == \A k \in DOMAIN image.px : image.px[k] = image.px[1]

\* cv2.GaussianBlur(image, (ksize, ksize), 0) and cv2.medianBlur(image,
\* ksize): an error unless ksize is odd and positive; a copy for ksize = 1
\* and for an image of one colour. Other inputs are not modelled.
Smoothed(image, ksize) ==
    CASE ksize <= 0 \/ ksize % 2 = 0 -> NoImage
      [] ksize > 0 /\ ksize % 2 = 1 /\ (ksize = 1 \/ AllPixelsEqual(image)) ->
            image

gaussian_blur(image, params) ==
    LET kernel_size == OddKernelSize(ParamGet(params, "kernel_size", 5))
        result == Smoothed(image, kernel_size)
    IN IF result = NoImage
       THEN Raised("cv2.error")
       ELSE Returned(result,
                     "Gaussian Blur, Kernel size: " \o ToString(kernel_size)
                         \o "x" \o ToString(kernel_size))

median_blur(image, params) ==
    LET kernel_size == OddKernelSize(ParamGet(params, "kernel_size", 5))
        result == Smoothed(image, kernel_size)
    IN IF result = NoImage
       THEN Raised("cv2.error")
       ELSE Returned(result,
                     "Median Blur, Kernel size: " \o ToString(kernel_size)
                         \o "x" \o ToString(kernel_size))

\* cv2.addWeighted(image, 1.0 + strength, blurred, -strength, 0) gives the
\* image back where blurred equals it, as Smoothed does.
sharpen(image, params) ==
    LET kernel_size == OddKernelSize(ParamGet(params, "kernel_size", 3))
        blurred == Smoothed(image, kernel_size)
    IN IF blurred = NoImage
       THEN Raised("cv2.error")
       ELSE Returned(blurred,
                     "Unsharp Masking (Sharpening), Kernel size: "
                         \o ToString(kernel_size))

\* getattr(handler, op_type)(current_img, **params) followed by the
\* unpacking into processed, description.
Invoke(handler, op_type, image, params) ==
    IF op_type \in ObjectAttrs
    THEN \* inherited slots and plain attributes: none accepts
         \* (image, **params), and __eq__ and its kin return NotImplemented
         Raised("TypeError")
    ELSE IF op_type = "_MorphologicalOperations__get_kernel"
            /\ "kernel_size" \notin ParamNames(params)
    THEN Raised("missing 1 required positional argument: 'kernel_size'")
    ELSE IF ~(ParamNames(params) \subseteq Keywords(op_type))
    THEN Raised("got an unexpected keyword argument")
    ELSE CASE op_type = "grayscale" -> grayscale(image)
           [] op_type = "negative" -> negative(image)
           [] op_type = "threshold" -> threshold(image, params)
           [] op_type = "frequency_filter" -> frequency_filter(image, params)
           [] op_type = "fourier_transform" -> fourier_transform(image)
           [] op_type = "histogram_equalization" ->
                 histogram_equalization(image)
           [] op_type = "erosion" -> erosion(image, params)
           [] op_type = "adjust_brightness" -> adjust_brightness(image, params)
           [] op_type = "gaussian_blur" -> gaussian_blur(image, params)
           [] op_type = "median_blur" -> median_blur(image, params)
           [] op_type = "sharpen" -> sharpen(image, params)

\* Mutant: negative draws colours as watershed does.
DrawsAlsoNegative(op_type, params) ==
    op_type \in {"watershed", "negative"}
        /\ ParamNames(params) \subseteq Keywords(op_type)

\* Whether the call reaches the body of a method that draws from
\* np.random.
Draws(op_type, params) ==
    op_type = "watershed" /\ ParamNames(params) \subseteq Keywords(op_type)

\* The sequences of colours the call may draw from numpy's global generator,
\* which nothing seeds: every value is possible at every draw.
ColorDraws(op_type, image, params) ==
    IF Draws(op_type, params)
    THEN [1..WatershedColors(image) -> RandomColors]
    ELSE {<<>>}

\* Invoke, for a call that drew colors.
InvokeDrawing(handler, op_type, image, params, colors) ==
    IF Draws(op_type, params)
    THEN watershed(image, colors)
    ELSE Invoke(handler, op_type, image, params)

\* Mutant: histogram_equalization equalizes the array it was given.
InputAfterInPlace(handler, op_type, image) ==
    IF op_type = "histogram_equalization"
    THEN histogram_equalization(image).image
    ELSE image

\* The samples of the array passed as image once the call is over: no method
\* writes into it (histogram_equalization and watershed write into arrays
\* they made themselves), and the inherited attributes raise before they
\* touch it.
InputAfter(handler, op_type, image) == image

\* ------------------------------------------------------- files and codecs

\* File contents and encoded buffers are [fmt, img]: an encoded image, or
\* bytes that no codec reads.
Garbage == [fmt |-> "garbage", img |-> NoImage]

\* cv2.imencode(ext, image)
ImEncode(ext, image) == [fmt |-> ext, img |-> image]

\* cv2.imread(path) on a file holding content: the image, or None.
ImDecode(content) ==
    IF content.fmt \in {".png", ".jpg", ".bmp"} THEN content.img ELSE NoImage

\* base64.b64encode(buffer).decode('utf-8') and base64.b64decode
B64Encode(buffer) == [b64 |-> buffer]

B64Decode(text) == text.b64

\* The upload folder right after os.makedirs created it.
EmptyFolder == [n \in {} |-> Garbage]

\* os.path.join(UPLOAD_FOLDER, filename) names a file of the upload folder
\* by its name; a name is <<stem, uuid, ext>>.
NoSuchName == <<"missing", 0, ".png">>

\* ------------------------------------------------------ process requests

\* The entries a request's 'operations' list is drawn from; the second has
\* no 'type'.
OpEntries ==
    { [type |-> "grayscale", params |-> {}],
      [type |-> "negative", params |-> {}],
      [type |-> "frequency_filter", params |-> {}],
      [type |-> "rgb_to_hsv", params |-> {}],
      [type |-> "__init__", params |-> {}],
      [type |-> "_MorphologicalOperations__get_kernel", params |-> {}],
      [params |-> {}] }

OperationLists == UNION {[1..n -> OpEntries] : n \in 0..MaxOps}

\* dict.get(key, default)
DictGet(d, key, default) == IF key \in DOMAIN d THEN d[key] ELSE default

NoResponse == [status |-> 0, body |-> [none |-> TRUE]]

NoRequest == [filename |-> NoSuchName, operations |-> <<>>]

\* ------------------------------------------------------------------- state

VARIABLES
    handlers,     \* handler object -> its dir(): the dispatcher's registry
    files,        \* the upload folder: file name -> content
    nextUuid,     \* the number of uuid4() values drawn so far, plus one
    out,          \* the response of upload, save_processed,
                  \* get_available_operations or clear_uploads, until sent
    pc,           \* process_image: "idle", "load", "loop" or "done"
    req,          \* process_image: the request's filename and operations
    img,          \* process_image: the decoded source image
    current_img,  \* process_image: the working image
    results,      \* process_image: the result list
    idx,          \* process_image: position of the for loop, from 1
    resp,         \* process_image: the response, once pc = "done"
    calls,        \* history: the attribute calls of this run, in order
    failedAt,     \* history: zero-based index of the stage that aborted
                  \* this run, or -1
    np_random,    \* the number of colours drawn from numpy's global
                  \* generator since the process started
    other,        \* a second process_image request in progress: its
                  \* locals, as a record
    outside,      \* the directory above the upload folder: file name ->
                  \* content
    up,           \* an upload_file request followed line by line: its
                  \* locals, as a record
    returned      \* history: the filenames successful uploads returned

vars == <<handlers, files, nextUuid, out, pc, req, img, current_img, results,
          idx, resp, calls, failedAt, np_random, other, outside, up, returned>>

runVars == <<pc, req, img, current_img, results, idx, resp, calls, failedAt>>

\* Highest number of uuids drawn, i.e. of files ever created.
MaxFiles == 1

\* The locals of a request that is not there.
NoRun ==
    [pc |-> "idle", filename |-> NoSuchName, operations |-> <<>>,
     img |-> NoImage, current_img |-> NoImage, results |-> <<>>, idx |-> 1,
     resp |-> NoResponse]

\* The locals of an upload that is not there.
NoUpload ==
    [pc |-> "idle", ext |-> "", saved_filename |-> NoSuchName,
     img |-> NoImage]

Init ==
    /\ handlers = InitialHandlers
    /\ files = EmptyFolder
    /\ nextUuid = 1
    /\ out = NoResponse
    /\ pc = "idle"
    /\ req = NoRequest
    /\ img = NoImage
    /\ current_img = NoImage
    /\ results = <<>>
    /\ idx = 1
    /\ resp = NoResponse
    /\ calls = <<>>
    /\ failedAt = -1
    /\ np_random = 0
    /\ outside = EmptyFolder
    /\ up = NoUpload
    /\ returned = {}
    /\ other = NoRun

\* ------------------------------------------------------------ upload_file

ALLOWED_EXTENSIONS == {"png", "jpg", "jpeg", "bmp", "tif", "tiff"}

\* The uploads tried: [hasFile, filename, content], filename as the pair
\* <<stem, extension after the last dot>> ("" when there is no dot).
UploadInputs ==
    { [hasFile |-> FALSE, filename |-> <<"", "">>, content |-> Garbage],
      [hasFile |-> TRUE, filename |-> <<"", "">>, content |-> Garbage],
      [hasFile |-> TRUE, filename |-> <<"notes", "txt">>, content |-> Garbage],
      [hasFile |-> TRUE, filename |-> <<"photo", "png">>, content |-> Garbage],
      [hasFile |-> TRUE, filename |-> <<"photo", "png">>,
       content |-> ImEncode(".png", ImgA)] }

allowed_file(filename) == filename[2] # "" /\ filename[2] \in ALLOWED_EXTENSIONS

\* f"{name}_{unique_id}{ext}"
SavedFilename(name, unique_id, ext) == <<name, unique_id, ext>>

\* files with one more file, and with one file removed
WriteFile(fs, name, content) ==
    [n \in DOMAIN fs \cup {name} |-> IF n = name THEN content ELSE fs[n]]

RemoveFile(fs, name) == [n \in DOMAIN fs \ {name} |-> fs[n]]

Error(status, message) == [status |-> status, body |-> [error |-> message]]

\* The answer to a request whose handler let an exception escape: the
\* server's own 500 page, which is not JSON.
Unhandled(exception) == [status |-> 500, body |-> [unhandled |-> exception]]

\* os.path.splitext(secure_filename(file.filename)): secure_filename strips
\* leading and trailing dots, so ".png" becomes "png", a name without an
\* extension.
SecureSplit(filename) ==
    IF filename[1] = "" THEN <<filename[2], "">>
    ELSE IF filename[2] = "" THEN <<filename[1], "">>
    ELSE <<filename[1], "." \o filename[2]>>

\* The extensions cv2.imencode has an encoder for, among those in use.
Encoders == {".png", ".jpg", ".jpeg", ".bmp", ".tif", ".tiff"}

\* A client's text split at "/", for the texts in use.
Components(text) ==
    CASE text = "../leak" -> <<"..", "leak">>
      [] OTHER -> <<text>>

\* os.path.join(UPLOAD_FOLDER, filename): the directory and the name of the
\* file that filename, a name <<text before the uuid, uuid, ext>>, leads to.
Locate(filename) ==
    LET parts == Components(filename[1])
    IN IF Len(parts) = 2 /\ parts[1] = ".."
       THEN [dir |-> "static", name |-> <<parts[2], filename[2], filename[3]>>]
       ELSE [dir |-> "uploads", name |-> filename]

\* os.path.exists(path) and the content of the file at the path
Exists(filename) ==
    LET at == Locate(filename)
    IN at.name \in DOMAIN (IF at.dir = "uploads" THEN files ELSE outside)

ReadFile(filename) ==
    LET at == Locate(filename)
    IN IF at.dir = "uploads" THEN files[at.name] ELSE outside[at.name]

upload_file(file) ==
    /\ pc = "idle"
    /\ up.pc = "idle"
    /\ out = NoResponse
    /\ UNCHANGED <<handlers, np_random, other, outside, up, runVars>>
    /\ IF ~file.hasFile
       THEN /\ out' = Error(400, <<"No file part">>)
            /\ UNCHANGED <<files, nextUuid, returned>>
       ELSE IF file.filename = <<"", "">>
       THEN /\ out' = Error(400, <<"No selected file">>)
            /\ UNCHANGED <<files, nextUuid, returned>>
       ELSE IF ~allowed_file(file.filename)
       THEN /\ out' = Error(400, <<"File type not allowed">>)
            /\ UNCHANGED <<files, nextUuid, returned>>
       ELSE /\ nextUuid <= MaxFiles
            /\ nextUuid' = nextUuid + 1
            /\ LET name == SecureSplit(file.filename)[1]
                   ext == SecureSplit(file.filename)[2]
                   saved_filename == SavedFilename(name, nextUuid, ext)
                   saved == WriteFile(files, saved_filename, file.content)
                   image == ImDecode(saved[saved_filename])
               IN IF image = NoImage
                  THEN /\ files' = RemoveFile(saved, saved_filename)
                       /\ out' = Error(400, <<"Invalid image file">>)
                       /\ UNCHANGED returned
                  ELSE IF ext \notin Encoders
                  THEN /\ files' = saved
                       /\ out' = Unhandled("cv2.error")
                       /\ UNCHANGED returned
                  ELSE /\ files' = saved
                       /\ returned' = returned \cup {saved_filename}
                       /\ out' = [status |-> 200,
                                  body |-> [success |-> TRUE,
                                            filename |-> saved_filename,
                                            image |-> B64Encode(ImEncode(ext, image)),
                                            width |-> image.w,
                                            height |-> image.h]]

Upload == \E file \in UploadInputs : upload_file(file)

\* --------------------------------------------------------- save_processed

\* The bodies tried: none, and [image, operation] with image a base64 text.
SaveInputs ==
    { [json |-> FALSE, image |-> B64Encode(Garbage), operation |-> ""],
      [json |-> TRUE, image |-> B64Encode(Garbage), operation |-> "negative"],
      [json |-> TRUE, image |-> B64Encode(ImEncode(".png", ImgB)),
       operation |-> "negative"] }

save_processed(data) ==
    /\ pc = "idle"
    /\ up.pc = "idle"
    /\ out = NoResponse
    /\ UNCHANGED <<handlers, np_random, other, up, returned, runVars>>
    /\ IF ~data.json
       THEN /\ out' = Error(400, <<"Invalid request data">>)
            /\ UNCHANGED <<files, outside, nextUuid>>
       ELSE /\ nextUuid <= MaxFiles
            /\ nextUuid' = nextUuid + 1
            /\ LET img_data == B64Decode(data.image)
                   filename == SavedFilename(data.operation, nextUuid, ".png")
                   filepath == Locate(filename)
               IN /\ IF filepath.dir = "uploads"
                     THEN /\ files' = WriteFile(files, filepath.name, img_data)
                          /\ UNCHANGED outside
                     ELSE /\ outside' =
                                 WriteFile(outside, filepath.name, img_data)
                          /\ UNCHANGED files
                  /\ out' = [status |-> 200,
                             body |-> [success |-> TRUE, filename |-> filename]]

SaveProcessed == \E data \in SaveInputs : save_processed(data)

\* ----------------------------------------------- get_available_operations

\* Mutant: the listing does not filter the names.
ListedByAll(reg, h) == reg[h]

\* [method for method in dir(handler) if not method.startswith('_')]
ListedBy(reg, h) == {m \in reg[h] : ~StartsWithUnderscore(m)}

ListedOperations(reg) == UNION {ListedBy(reg, h) : h \in HandlerNames}

\* operation_details[op]['category']: the loop runs over the categories in
\* the order of the dict, a later category overwriting an earlier one.
DetailCategory(reg, op) ==
    IF op \in ListedBy(reg, "segmentation_ops") THEN "segmentation"
    ELSE IF op \in ListedBy(reg, "morphological_ops") THEN "morphological"
    ELSE IF op \in ListedBy(reg, "advanced_ops") THEN "advanced"
    ELSE "basic"

get_available_operations ==
    /\ pc = "idle"
    /\ out = NoResponse
    /\ UNCHANGED <<handlers, np_random, other, outside, up, returned, files, nextUuid, runVars>>
    /\ out' = [status |-> 200,
               body |-> [success |-> TRUE,
                         operations |->
                            [c \in Categories |->
                                ListedBy(handlers, HandlerOfCategory(c))],
                         operation_details |->
                            [op \in ListedOperations(handlers) |->
                                DetailCategory(handlers, op)]]]

\* ---------------------------------------------------------- clear_uploads

\* Mutant: clear_uploads keeps the files that uploads returned.
DeletedByClearUnreturned(fs) == DOMAIN fs \ returned

\* os.listdir and os.path.isfile of clear_uploads: the names it removes.
DeletedByClear(fs) == DOMAIN fs

\* May run while a pipeline is between two of its steps.
clear_uploads ==
    /\ out = NoResponse
    /\ UNCHANGED <<handlers, np_random, other, outside, up, returned, nextUuid, runVars>>
    /\ files' = [n \in DOMAIN files \ DeletedByClear(files) |-> files[n]]
    /\ out' = [status |-> 200, body |-> [success |-> TRUE]]

\* The response of one of the four handlers above is sent.
Respond ==
    /\ out # NoResponse
    /\ out' = NoResponse
    /\ UNCHANGED <<handlers, np_random, other, outside, up, returned, files, nextUuid, runVars>>

\* ---------------------------------------------------------- process_image

\* The request bodies tried besides the well-formed ones: no JSON body, and
\* bodies lacking one of the two keys.
BadBodies == {{}, {"filename"}, {"operations"}}

\* Lines 85-96: the body is checked and the file looked up.
ProcessRequest ==
    /\ pc = "idle"
    /\ out = NoResponse
    /\ UNCHANGED <<handlers, np_random, other, outside, up, returned, files, nextUuid, out>>
    /\ UNCHANGED <<img, current_img, results, idx, calls, failedAt>>
    /\ \/ \E keys \in BadBodies :
            /\ req' = NoRequest
            /\ resp' = Error(400, <<"Invalid request data">>)
            /\ pc' = "done"
       \/ \E operations \in {ops \in OperationLists : Len(ops) <= 1} :
            /\ req' = [filename |-> NoSuchName, operations |-> operations]
            /\ resp' = Error(404, <<"Image not found">>)
            /\ pc' = "done"
       \/ \E filename \in DOMAIN files, operations \in OperationLists :
            /\ req' = [filename |-> filename, operations |-> operations]
            /\ resp' = NoResponse
            /\ pc' = "load"

\* Mutant: reading a file that is gone raises, and the request is answered
\* with the server's own error page.
ProcessLoadRaising ==
    /\ pc = "load"
    /\ UNCHANGED <<handlers, np_random, other, outside, up, returned, files, nextUuid, out, req, idx, calls, failedAt>>
    /\ IF ~Exists(req.filename)
       THEN /\ resp' = Unhandled("FileNotFoundError")
            /\ pc' = "done"
            /\ UNCHANGED <<img, current_img, results>>
       ELSE LET image == ImDecode(ReadFile(req.filename))
            IN IF image = NoImage
               THEN /\ resp' = Error(400, <<"Could not read image">>)
                    /\ pc' = "done"
                    /\ UNCHANGED <<img, current_img, results>>
               ELSE /\ img' = image
                    /\ current_img' = image
                    /\ results' = <<>>
                    /\ pc' = "loop"
                    /\ UNCHANGED resp

\* Lines 98-103: cv2.imread, results = [], current_img = img.copy().
ProcessLoad ==
    /\ pc = "load"
    /\ UNCHANGED <<handlers, np_random, other, outside, up, returned, files, nextUuid, out, req, idx, calls, failedAt>>
    /\ LET image == IF Exists(req.filename)
                    THEN ImDecode(ReadFile(req.filename))
                    ELSE NoImage
       IN IF image = NoImage
          THEN /\ resp' = Error(400, <<"Could not read image">>)
               /\ pc' = "done"
               /\ UNCHANGED <<img, current_img, results>>
          ELSE /\ img' = image
               /\ current_img' = image
               /\ results' = <<>>
               /\ pc' = "loop"
               /\ UNCHANGED resp

\* Mutant: the entry reports the size of the source image.
ResultEntrySourceSize(op_type, processed, description) ==
    [operation |-> op_type,
     image |-> B64Encode(ImEncode(".png", processed)),
     description |-> description,
     width |-> img.w,
     height |-> img.h]

\* The entry results.append stores for a stage.
ResultEntry(op_type, processed, description) ==
    [operation |-> op_type,
     image |-> B64Encode(ImEncode(".png", processed)),
     description |-> description,
     width |-> processed.w,
     height |-> processed.h]

\* Mutant: the working image is not advanced.
NextWorkingImageStale(current, processed) == current

\* Mutant: the working image is one buffer that all requests write.
NextWorkingImageShared(current, processed) ==
    IF other.pc = "loop" /\ other.current_img # NoImage
    THEN other.current_img
    ELSE processed

\* current_img = processed
NextWorkingImage(current, processed) == processed

\* Mutant: a failure is recorded and the loop goes on.
PcAfterFailureContinue == "loop"

\* The position of the run after a stage failed: both failure branches
\* return from the handler.
PcAfterFailure == "done"

\* Mutant: an unknown operation ends the loop and the results so far are
\* returned as a success.
UnknownOperationBreak(op_type) ==
    [status |-> 200, body |-> [success |-> TRUE, results |-> results]]

UnknownOperation(op_type) == Error(400, <<"Unknown operation", op_type>>)

\* Mutant: the error is returned together with the results so far.
OperationErrorPartial(op_type, cause) ==
    [status |-> 500,
     body |-> [error |-> <<"Error in operation", op_type, cause>>,
               results |-> results]]

\* Mutant: the message names the cause and not the operation.
OperationErrorNoName(op_type, cause) ==
    Error(500, <<"Error in operation", cause>>)

\* f'Error in operation {op_type}: {str(e)}'
OperationError(op_type, cause) ==
    Error(500, <<"Error in operation", op_type, cause>>)

\* Mutant: an attribute whose call raised is removed from its handler.
HandlersAfterDrop(reg, handler, op_type, r) ==
    IF r.raised
    THEN [reg EXCEPT ![handler] = reg[handler] \ {op_type}]
    ELSE reg

\* The handler objects after getattr(handler, op_type)(current_img,
\* **params) returned or raised r: no method of the four classes assigns to
\* self, and the inherited __init__, __setattr__ and __delattr__ raise
\* TypeError on these arguments before they change anything.
HandlersAfter(reg, handler, op_type, r) == reg

\* The record of one attribute call, for the history.
Call(stage, handler, op_type, image) ==
    [stage |-> stage, handler |-> handler, op |-> op_type, input |-> image,
     after |-> InputAfter(handler, op_type, image)]

\* Whether 'operations' is a value that a for loop iterates: a request
\* whose 'operations' is a number or null carries iterable |-> FALSE.
Iterable(request) == DictGet(request, "iterable", TRUE)

\* Whether an entry of 'operations' is a JSON object, which has .get; an
\* entry that is a JSON string s is [str |-> s].
IsObject(op) == "str" \notin DOMAIN op

\* Line 106 for an 'operations' that is not iterable: the for statement
\* raises TypeError, outside the try.
ProcessNotIterable ==
    /\ pc = "loop"
    /\ ~Iterable(req)
    /\ UNCHANGED <<handlers, np_random, other, outside, up, returned, files, nextUuid, out>>
    /\ UNCHANGED <<req, img, current_img, results, idx, calls, failedAt>>
    /\ resp' = Unhandled("TypeError")
    /\ pc' = "done"

\* Lines 106-140: one iteration of the for loop. op.get on lines 107-108 is
\* outside the try.
ProcessStage ==
    /\ pc = "loop"
    /\ Iterable(req)
    /\ idx <= Len(req.operations)
    /\ UNCHANGED <<outside, up, returned, files, nextUuid, out, req, img, other>>
    /\ LET op == req.operations[idx]
           op_type == DictGet(op, "type", NoneType)
           params == DictGet(op, "params", {})
           handler == Resolve(handlers, op_type)
       IN IF ~IsObject(op)
          THEN /\ resp' = Unhandled("AttributeError")
               /\ pc' = "done"
               /\ failedAt' = idx - 1
               /\ idx' = idx + 1
               /\ UNCHANGED <<handlers, np_random, current_img, results, calls>>
          ELSE IF handler = "none"
          THEN /\ resp' = UnknownOperation(op_type)
               /\ pc' = PcAfterFailure
               /\ failedAt' = idx - 1
               /\ idx' = idx + 1
               /\ UNCHANGED <<handlers, np_random, current_img, results, calls>>
          ELSE \E colors \in ColorDraws(op_type, current_img, params) :
               LET r == InvokeDrawing(handler, op_type, current_img, params,
                                      colors)
               IN /\ calls' = Append(calls,
                                Call(idx - 1, handler, op_type, current_img))
                  /\ handlers' = HandlersAfter(handlers, handler, op_type, r)
                  /\ np_random' = np_random + Len(colors)
                  /\ idx' = idx + 1
                  /\ IF r.raised
                     THEN /\ resp' = OperationError(op_type, r.cause)
                          /\ pc' = PcAfterFailure
                          /\ failedAt' = idx - 1
                          /\ UNCHANGED <<current_img, results>>
                     ELSE /\ results' = Append(results,
                                 ResultEntry(op_type, r.image, r.description))
                          /\ current_img' = NextWorkingImage(current_img, r.image)
                          /\ UNCHANGED <<resp, pc, failedAt>>

\* Mutant: the loop leaves out the last operation.
ProcessSuccessEarly ==
    /\ pc = "loop"
    /\ Iterable(req)
    /\ idx >= Len(req.operations)
    /\ UNCHANGED <<handlers, np_random, other, outside, up, returned, files, nextUuid, out>>
    /\ UNCHANGED <<req, img, current_img, results, idx, calls, failedAt>>
    /\ resp' = [status |-> 200, body |-> [success |-> TRUE, results |-> results]]
    /\ pc' = "done"

\* What the handler returns when the loop is exhausted.
SuccessResponse(res) ==
    [status |-> 200, body |-> [success |-> TRUE, results |-> res]]

\* Lines 142-145.
ProcessSuccess ==
    /\ pc = "loop"
    /\ Iterable(req)
    /\ idx > Len(req.operations)
    /\ UNCHANGED <<handlers, np_random, other, outside, up, returned, files, nextUuid, out>>
    /\ UNCHANGED <<req, img, current_img, results, idx, calls, failedAt>>
    /\ resp' = SuccessResponse(results)
    /\ pc' = "done"

\* Mutant: the request removes the file it has processed once it is done.
ProcessReturnCleaning ==
    /\ pc = "done"
    /\ UNCHANGED <<handlers, np_random, other, outside, up, returned, nextUuid, out>>
    /\ files' = [n \in DOMAIN files \ {req.filename} |-> files[n]]
    /\ pc' = "idle"
    /\ req' = NoRequest
    /\ img' = NoImage
    /\ current_img' = NoImage
    /\ results' = <<>>
    /\ idx' = 1
    /\ resp' = NoResponse
    /\ calls' = <<>>
    /\ failedAt' = -1

\* The response is sent and the locals of the request are discarded.
ProcessReturn ==
    /\ pc = "done"
    /\ UNCHANGED <<handlers, np_random, other, outside, up, returned, files, nextUuid, out>>
    /\ pc' = "idle"
    /\ req' = NoRequest
    /\ img' = NoImage
    /\ current_img' = NoImage
    /\ results' = <<>>
    /\ idx' = 1
    /\ resp' = NoResponse
    /\ calls' = <<>>
    /\ failedAt' = -1

\* ---------------------------------------------------------- specification

Next ==
    \/ Upload
    \/ SaveProcessed
    \/ get_available_operations
    \/ clear_uploads
    \/ Respond
    \/ ProcessRequest
    \/ ProcessLoad
    \/ ProcessStage
    \/ ProcessSuccess
    \/ ProcessReturn

Spec == Init /\ [][Next]_vars

\* ------------------------------------------------- one request, many inputs

\* Largest kernel_size and iterations given to erosion.
MaxKernel == 3

MaxIterations == 2

\* A row of seven black pixels: 7 is no optimal DFT size.
ImgBlackRow == Uniform(1, 7, <<0, 0, 0>>)

ImgBlack == Uniform(3, 3, <<0, 0, 0>>)

ImgGray == Uniform(2, 2, <<90, 90, 90>>)

ImgTeal == Uniform(2, 3, <<160, 120, 0>>)

ImgRamp ==
    [h |-> 1, w |-> 3,
     px |-> << <<50, 50, 50>>, <<100, 100, 100>>, <<200, 200, 200>> >>]

\* The 1 by 1 images, one for every value of the blue sample.
ImgLevels == {Uniform(1, 1, <<v, 255 - v, (3 * v) % 256>>) : v \in 0..255}

ListsOver(entries) == UNION {[1..n -> entries] : n \in 0..MaxOps}

GeneralEntries ==
    { [type |-> "grayscale", params |-> {}],
      [type |-> "negative", params |-> {}],
      [type |-> "threshold", params |-> {<<"threshold_value", 127>>}],
      [type |-> "threshold",
       params |-> {<<"threshold_value", 127>>, <<"max_value", 200>>}],
      [type |-> "fourier_transform", params |-> {}],
      [type |-> "frequency_filter", params |-> {}],
      [type |-> "watershed", params |-> {}] }

ErosionEntries ==
    { [type |-> "erosion",
       params |-> {<<"kernel_size", k>>, <<"kernel_shape", s>>,
                   <<"iterations", n>>}] :
        k \in 1..MaxKernel,
        s \in {"rect", "ellipse", "cross", "diamond"},
        n \in 1..MaxIterations }
    \cup { [type |-> "erosion", params |-> {}] }

\* adjust_brightness with no beta and with betas from -255 to 255.
BrightnessEntries ==
    { [type |-> "adjust_brightness", params |-> {<<"beta", b>>}] :
        b \in {-255, -60, 0, 50, 255} }
    \cup { [type |-> "adjust_brightness", params |-> {}] }

\* The three filters with no kernel_size and with negative, zero, even and
\* odd ones.
SmoothingEntries ==
    { [type |-> t, params |-> {<<"kernel_size", k>>}] :
        t \in {"gaussian_blur", "median_blur", "sharpen"},
        k \in -2..MaxKernel + 1 }
    \cup { [type |-> t, params |-> {}] :
              t \in {"gaussian_blur", "median_blur", "sharpen"} }

\* The requests tried: an uploaded image and an operations list. Each family
\* keeps to the images its operations are modelled on.
PipelineInputs ==
    {[image |-> i, operations |-> l] :
        i \in SourceImages, l \in ListsOver(GeneralEntries)}
    \cup {[image |-> ImgBlackRow, operations |-> l] :
            l \in ListsOver({ [type |-> "fourier_transform", params |-> {}],
                              [type |-> "grayscale", params |-> {}] })}
    \cup {[image |-> ImgBlack, operations |-> l] :
            l \in ListsOver({ [type |-> "watershed", params |-> {}],
                              [type |-> "negative", params |-> {}],
                              [type |-> "grayscale", params |-> {}] })}
    \cup {[image |-> i, operations |-> <<e>>] :
            i \in {ImgBlack, ImgGray, ImgTeal, ImgA}, e \in ErosionEntries}
    \cup {[image |-> i, operations |-> l] :
            i \in {ImgGray, ImgRamp},
            l \in ListsOver({ [type |-> "histogram_equalization", params |-> {}],
                              [type |-> "negative", params |-> {}] })}
    \cup {[image |-> i,
           operations |-> << [type |-> "negative", params |-> {}],
                             [type |-> "negative", params |-> {}] >>] :
            i \in ImgLevels}
    \cup {[image |-> i, operations |-> <<e>>] :
            i \in ImgLevels, e \in BrightnessEntries}
    \cup {[image |-> i, operations |-> <<e>>] :
            i \in {ImgGray, ImgBlack}, e \in SmoothingEntries}

\* The name upload_file gave the image of the request.
PipelineFile == SavedFilename("photo", 1, ".png")

\* The state in which process_image has accepted a request for an image
\* that was uploaded before.
AcceptedRequest(input) ==
    /\ handlers = InitialHandlers
    /\ files = [n \in {PipelineFile} |-> ImEncode(".png", input.image)]
    /\ nextUuid = 2
    /\ out = NoResponse
    /\ pc = "load"
    /\ req = [filename |-> PipelineFile, operations |-> input.operations]
    /\ img = NoImage
    /\ current_img = NoImage
    /\ results = <<>>
    /\ idx = 1
    /\ resp = NoResponse
    /\ calls = <<>>
    /\ failedAt = -1
    /\ np_random = 0
    /\ outside = EmptyFolder
    /\ up = NoUpload
    /\ returned = {PipelineFile}
    /\ other = NoRun

PipelineInit == \E input \in PipelineInputs : AcceptedRequest(input)

PipelineNext ==
    \/ ProcessLoad
    \/ ProcessStage
    \/ ProcessSuccess
    \/ ProcessReturn

SpecPipeline == PipelineInit /\ [][PipelineNext]_vars

\* The handler runs its statements one after the other in one thread and
\* waits for nothing but the transforms it calls: as long as each of those
\* returns or raises, a step that can be taken is taken.
PipelineFairness ==
    /\ WF_vars(ProcessLoad)
    /\ WF_vars(ProcessStage)
    /\ WF_vars(ProcessSuccess)
    /\ WF_vars(ProcessReturn)

\* The requests whose runs are followed to their end: stages that return,
\* a stage that raises and a stage that names no operation.
FairInputs ==
    {[image |-> i, operations |-> l] :
        i \in SourceImages,
        l \in ListsOver({ [type |-> "grayscale", params |-> {}],
                          [type |-> "frequency_filter", params |-> {}],
                          [type |-> "rgb_to_hsv", params |-> {}] })}

PipelineFairInit == \E input \in FairInputs : AcceptedRequest(input)

SpecPipelineFair ==
    PipelineFairInit /\ [][PipelineNext]_vars /\ PipelineFairness

\* ------------------------------------------------- two requests at a time

\* Longest operations list of two requests served at the same time.
MaxConcOps == 2

ConcEntries ==
    { [type |-> "negative", params |-> {}],
      [type |-> "watershed", params |-> {}] }

ConcLists == UNION {[1..n -> ConcEntries] : n \in 0..MaxConcOps}

\* Two requests for the same uploaded image have been accepted, each by its
\* own thread of the server.
ConcInit ==
    \E image \in {ImgBlack, ImgB}, mine \in ConcLists, theirs \in ConcLists :
        /\ handlers = InitialHandlers
        /\ files = [n \in {PipelineFile} |-> ImEncode(".png", image)]
        /\ nextUuid = 2
        /\ out = NoResponse
        /\ pc = "load"
        /\ req = [filename |-> PipelineFile, operations |-> mine]
        /\ img = NoImage
        /\ current_img = NoImage
        /\ results = <<>>
        /\ idx = 1
        /\ resp = NoResponse
        /\ calls = <<>>
        /\ failedAt = -1
        /\ np_random = 0
        /\ outside = EmptyFolder
        /\ up = NoUpload
        /\ returned = {PipelineFile}
        /\ other = [NoRun EXCEPT !.pc = "load", !.filename = PipelineFile,
                                 !.operations = theirs]

\* Lines 98-103, in the second request.
OtherLoad ==
    /\ other.pc = "load"
    /\ UNCHANGED <<handlers, outside, up, returned, files, nextUuid, out, np_random, runVars>>
    /\ LET image == IF other.filename \in DOMAIN files
                    THEN ImDecode(files[other.filename])
                    ELSE NoImage
       IN IF image = NoImage
          THEN other' = [other EXCEPT
                            !.resp = Error(400, <<"Could not read image">>),
                            !.pc = "done"]
          ELSE other' = [other EXCEPT !.img = image, !.current_img = image,
                                      !.results = <<>>, !.pc = "loop"]

\* Lines 106-140, in the second request: one iteration of its for loop.
OtherStage ==
    /\ other.pc = "loop"
    /\ other.idx <= Len(other.operations)
    /\ UNCHANGED <<outside, up, returned, files, nextUuid, out, runVars>>
    /\ LET op == other.operations[other.idx]
           op_type == DictGet(op, "type", NoneType)
           params == DictGet(op, "params", {})
           handler == Resolve(handlers, op_type)
       IN IF ~IsObject(op)
          THEN /\ other' = [other EXCEPT !.resp = Unhandled("AttributeError"),
                                         !.pc = "done",
                                         !.idx = @ + 1]
               /\ UNCHANGED <<handlers, np_random>>
          ELSE IF handler = "none"
          THEN /\ other' = [other EXCEPT !.resp = UnknownOperation(op_type),
                                         !.pc = PcAfterFailure,
                                         !.idx = @ + 1]
               /\ UNCHANGED <<handlers, np_random>>
          ELSE \E colors \in ColorDraws(op_type, other.current_img, params) :
               LET r == InvokeDrawing(handler, op_type, other.current_img,
                                      params, colors)
               IN /\ handlers' = HandlersAfter(handlers, handler, op_type, r)
                  /\ np_random' = np_random + Len(colors)
                  /\ IF r.raised
                     THEN other' = [other EXCEPT
                                       !.resp = OperationError(op_type, r.cause),
                                       !.pc = PcAfterFailure,
                                       !.idx = @ + 1]
                     ELSE other' = [other EXCEPT
                                       !.results = Append(@,
                                           ResultEntry(op_type, r.image,
                                                       r.description)),
                                       !.current_img =
                                           NextWorkingImage(@, r.image),
                                       !.idx = @ + 1]

\* Lines 142-145, in the second request.
OtherSuccess ==
    /\ other.pc = "loop"
    /\ other.idx > Len(other.operations)
    /\ UNCHANGED <<handlers, outside, up, returned, files, nextUuid, out, np_random, runVars>>
    /\ other' = [other EXCEPT !.resp = SuccessResponse(other.results),
                              !.pc = "done"]

ConcNext ==
    \/ ProcessLoad
    \/ ProcessStage
    \/ ProcessSuccess
    \/ OtherLoad
    \/ OtherStage
    \/ OtherSuccess

SpecConc == ConcInit /\ [][ConcNext]_vars

\* ------------------------------------- the folder, upload line by line

\* The uploads tried: the second to last is a valid image named ".png".
FolderUploads ==
    { [hasFile |-> FALSE, filename |-> <<"", "">>, content |-> Garbage],
      [hasFile |-> TRUE, filename |-> <<"", "">>, content |-> Garbage],
      [hasFile |-> TRUE, filename |-> <<"notes", "txt">>, content |-> Garbage],
      [hasFile |-> TRUE, filename |-> <<"scan", "png">>, content |-> Garbage],
      [hasFile |-> TRUE, filename |-> <<"", "png">>,
       content |-> ImEncode(".png", ImgB)],
      [hasFile |-> TRUE, filename |-> <<"photo", "png">>,
       content |-> ImEncode(".png", ImgA)] }

\* Lines 42-60: the checks, then file.save(filepath).
UploadSave(file) ==
    /\ pc = "idle"
    /\ up.pc = "idle"
    /\ out = NoResponse
    /\ UNCHANGED <<handlers, np_random, other, outside, returned, runVars>>
    /\ IF ~file.hasFile
       THEN /\ out' = Error(400, <<"No file part">>)
            /\ UNCHANGED <<files, nextUuid, up>>
       ELSE IF file.filename = <<"", "">>
       THEN /\ out' = Error(400, <<"No selected file">>)
            /\ UNCHANGED <<files, nextUuid, up>>
       ELSE IF ~allowed_file(file.filename)
       THEN /\ out' = Error(400, <<"File type not allowed">>)
            /\ UNCHANGED <<files, nextUuid, up>>
       ELSE /\ nextUuid <= MaxFiles
            /\ nextUuid' = nextUuid + 1
            /\ LET name == SecureSplit(file.filename)[1]
                   ext == SecureSplit(file.filename)[2]
                   saved_filename == SavedFilename(name, nextUuid, ext)
               IN /\ files' = WriteFile(files, saved_filename, file.content)
                  /\ up' = [pc |-> "saved", ext |-> ext,
                            saved_filename |-> saved_filename,
                            img |-> NoImage]
            /\ UNCHANGED out

UploadStart == \E file \in FolderUploads : UploadSave(file)

\* The same uploads, served from the first line to the last with no other
\* request in between.
UploadWhole == \E file \in FolderUploads : upload_file(file)

\* Line 63: img = cv2.imread(filepath), None when the file is not there.
UploadRead ==
    /\ up.pc = "saved"
    /\ up' = [up EXCEPT !.pc = "read",
                        !.img = IF up.saved_filename \in DOMAIN files
                                THEN ImDecode(files[up.saved_filename])
                                ELSE NoImage]
    /\ UNCHANGED <<handlers, np_random, other, outside, returned, files,
                   nextUuid, out, runVars>>

\* Lines 64-78: os.remove(filepath) and the 400, or cv2.imencode and the
\* success; neither is inside a try.
UploadAnswer ==
    /\ up.pc = "read"
    /\ out = NoResponse
    /\ up' = NoUpload
    /\ UNCHANGED <<handlers, np_random, other, outside, nextUuid, runVars>>
    /\ IF up.img = NoImage
       THEN /\ UNCHANGED returned
            /\ IF up.saved_filename \in DOMAIN files
               THEN /\ files' = RemoveFile(files, up.saved_filename)
                    /\ out' = Error(400, <<"Invalid image file">>)
               ELSE /\ out' = Unhandled("FileNotFoundError")
                    /\ UNCHANGED files
       ELSE IF up.ext \notin Encoders
       THEN /\ out' = Unhandled("cv2.error")
            /\ UNCHANGED <<files, returned>>
       ELSE /\ out' = [status |-> 200,
                       body |-> [success |-> TRUE,
                                 filename |-> up.saved_filename,
                                 image |-> B64Encode(ImEncode(up.ext, up.img)),
                                 width |-> up.img.w,
                                 height |-> up.img.h]]
            /\ returned' = returned \cup {up.saved_filename}
            /\ UNCHANGED files

\* The save_processed bodies tried: the last one's 'operation' has a "..".
FolderSaves ==
    { [json |-> FALSE, image |-> B64Encode(Garbage), operation |-> ""],
      [json |-> TRUE, image |-> B64Encode(ImEncode(".png", ImgB)),
       operation |-> "negative"],
      [json |-> TRUE, image |-> B64Encode(ImEncode(".png", ImgB)),
       operation |-> "../leak"] }

SaveAny == \E data \in FolderSaves : save_processed(data)

\* The 'operations' lists of the process_image requests tried.
FolderLists ==
    {<<>>, <<[type |-> "grayscale", params |-> {}]>>,
     <<[type |-> "frequency_filter", params |-> {}]>>,
     <<[params |-> {}]>>, <<[str |-> "grayscale"]>>}

\* The 'filename' texts tried: a name never given out, the names uploads
\* returned, the names in the folder, and "../" before a name of the
\* directory above.
FolderFilenames ==
    {NoSuchName} \cup returned \cup DOMAIN files
        \cup {<<"../leak", n[2], n[3]>> : n \in DOMAIN outside}

\* Lines 85-96 for the body data = [keys, filename, operations, iterable].
process_request(data) ==
    /\ pc = "idle"
    /\ up.pc = "idle"
    /\ out = NoResponse
    /\ UNCHANGED <<handlers, np_random, other, outside, up, returned, files,
                   nextUuid, out>>
    /\ UNCHANGED <<img, current_img, results, idx, calls, failedAt>>
    /\ IF data.keys # {"filename", "operations"}
       THEN /\ req' = NoRequest
            /\ resp' = Error(400, <<"Invalid request data">>)
            /\ pc' = "done"
       ELSE /\ req' = IF data.iterable
                       THEN [filename |-> data.filename,
                             operations |-> data.operations]
                       ELSE [filename |-> data.filename,
                             operations |-> <<>>, iterable |-> FALSE]
            /\ IF ~Exists(data.filename)
               THEN /\ resp' = Error(404, <<"Image not found">>)
                    /\ pc' = "done"
               ELSE /\ resp' = NoResponse
                    /\ pc' = "load"

\* 'operations' is one of the lists, or the number 5.
ProcessAsk ==
    \E keys \in BadBodies \cup {{"filename", "operations"}},
       filename \in FolderFilenames, operations \in FolderLists,
       iterable \in BOOLEAN :
        /\ iterable \/ operations = <<>>
        /\ process_request([keys |-> keys, filename |-> filename,
                            operations |-> operations,
                            iterable |-> iterable])

FolderNext ==
    \/ UploadWhole
    \/ UploadStart
    \/ UploadRead
    \/ UploadAnswer
    \/ SaveAny
    \/ get_available_operations
    \/ clear_uploads
    \/ Respond
    \/ ProcessAsk
    \/ ProcessLoad
    \/ ProcessNotIterable
    \/ ProcessStage
    \/ ProcessSuccess
    \/ ProcessReturn

\* A file that a successful upload left in the folder before the server
\* was started: the folder outlives the process, the uuids are its own.
EarlierFile == SavedFilename("photo", 0, ".png")

\* The server starts on an empty folder or on one that holds EarlierFile.
FolderInit ==
    \E earlier \in SUBSET {EarlierFile} :
        /\ handlers = InitialHandlers
        /\ files = [n \in earlier |-> ImEncode(".png", ImgA)]
        /\ returned = earlier
        /\ nextUuid = 1
        /\ out = NoResponse
        /\ pc = "idle"
        /\ req = NoRequest
        /\ img = NoImage
        /\ current_img = NoImage
        /\ results = <<>>
        /\ idx = 1
        /\ resp = NoResponse
        /\ calls = <<>>
        /\ failedAt = -1
        /\ np_random = 0
        /\ outside = EmptyFolder
        /\ up = NoUpload
        /\ other = NoRun

SpecFolder == FolderInit /\ [][FolderNext]_vars

\* ----------------------------------------------------------------- claims

\* A response is JSON unless it is the server's page for an escaped exception.
IsJson(response) == "unhandled" \notin DOMAIN response.body

\* The name and the parameters of the k-th operation of the request (from 1).
OpTypeAt(k) == DictGet(req.operations[k], "type", NoneType)

ParamsAt(k) == DictGet(req.operations[k], "params", {})

\* The stages the loop has been through.
StagesDone == {k \in DOMAIN req.operations : k < idx}

\* The image a result entry carries, read back from its base64 PNG.
EntryImage(entry) == ImDecode(B64Decode(entry.image))

\* The image stage k has to work on: the source image, or the output of the
\* stage before it.
StageInput(k) == IF k = 1 THEN img ELSE EntryImage(results[k - 1])

Failed == pc = "done" /\ failedAt >= 0

\* C1: the call of stage 0 gets the decoded source image, the call of each
\* later stage gets exactly the image the stage before it returned, and the
\* i-th result entry holds what the i-th operation made of that input.
C1_PipelineThreading ==
    pc \in {"loop", "done"} =>
        /\ \A k \in DOMAIN calls :
              /\ calls[k].stage = k - 1
              /\ calls[k].op = OpTypeAt(k)
              /\ calls[k].input = StageInput(k)
        /\ \A k \in DOMAIN results :
              LET r == Invoke(Resolve(InitialHandlers, OpTypeAt(k)),
                              OpTypeAt(k), StageInput(k), ParamsAt(k))
              IN /\ ~r.raised
                 /\ results[k].operation = OpTypeAt(k)
                 /\ EntryImage(results[k]) = r.image
                 /\ results[k].description = r.description

C1_Witness ==
    /\ pc = "done"
    /\ resp.status = 200
    /\ Len(results) = 3
    /\ OpTypeAt(1) = "grayscale"
    /\ OpTypeAt(2) = "negative"
    /\ calls[2].input # img
    /\ calls[3].input # calls[2].input

\* C2: a success response holds one entry per requested operation (none for
\* an empty list), the i-th named after the i-th operation.
C2_OneEntryPerOperation ==
    (pc = "done" /\ resp.status = 200) =>
        /\ DOMAIN resp.body = {"success", "results"}
        /\ Len(resp.body.results) = Len(req.operations)
        /\ \A k \in DOMAIN req.operations :
              resp.body.results[k].operation = OpTypeAt(k)

C2_Witness ==
    /\ pc = "done"
    /\ resp.status = 200
    /\ Len(req.operations) = 3
    /\ OpTypeAt(1) # OpTypeAt(2)

\* C3: once stage i has failed, no attribute of a later stage is called in
\* that run.
C3_AbortOnFirstFailure ==
    failedAt >= 0 =>
        /\ \A k \in DOMAIN calls : calls[k].stage <= failedAt
        /\ Len(results) <= failedAt

C3_Witness ==
    /\ Failed
    /\ failedAt = 1
    /\ Len(req.operations) = 3
    /\ Len(calls) = 2
    /\ resp.status = 500

\* The attribute call that made the run fail, when a call did.
FailingCall == calls[Len(calls)]

RaisedAtStage == Failed /\ resp.status = 500

\* C4, as claimed: when a stage fails, the response carries the entries of
\* the stages completed before it, plus an error for the failing stage.
C4_PartialResultsReturned ==
    Failed =>
        /\ "error" \in DOMAIN resp.body
        /\ "results" \in DOMAIN resp.body
        /\ Len(resp.body.results) = failedAt

\* C4, amended: when a stage fails, the run holds one entry for each stage
\* completed before it, in order, and none for the failing stage or a later
\* one; the response carries an error and no results.
C4_PartialResultsKeptBack ==
    Failed =>
        /\ Len(results) = failedAt
        /\ \A k \in DOMAIN results : results[k].operation = OpTypeAt(k)
        /\ "error" \in DOMAIN resp.body
        /\ "results" \notin DOMAIN resp.body

C4_Witness ==
    /\ Failed
    /\ failedAt = 1
    /\ Len(req.operations) = 3
    /\ Len(results) = 1
    /\ results[1].operation = "grayscale"
    /\ OpTypeAt(2) = "frequency_filter"

\* C5: when a stage fails, the response carries the error and nothing else:
\* every key of its body other than 'error', the entries of the completed
\* stages included, is absent.
C5_FailsAsUnit ==
    Failed =>
        /\ DOMAIN resp.body = {"error"}
        /\ resp.status \in {400, 500}

C5_Witness ==
    /\ Failed
    /\ Len(results) = 2
    /\ resp.status = 400
    /\ DOMAIN resp.body = {"error"}

\* The parts an error message is formatted from.
MessageParts(response) ==
    {response.body.error[k] : k \in DOMAIN response.body.error}

C7_UnlistedNameIsUnknown ==
    \A k \in StagesDone :
        OpTypeAt(k) \notin ListedOperations(handlers) =>
            /\ failedAt = k - 1
            /\ resp = Error(400, <<"Unknown operation", OpTypeAt(k)>>)
            /\ \A c \in DOMAIN calls : calls[c].stage # k - 1

\* C8, as claimed: a stage naming a method of ColorProcessing,
\* FrequencyDomain or RestorationOperations resolves to a handler and is not
\* answered 'Unknown operation'.
C8_SevenCategoriesResolve ==
    \A k \in StagesDone :
        OpTypeAt(k) \in ColorProcessingMethods \cup FrequencyDomainMethods
                          \cup RestorationOperationsMethods =>
            /\ Resolve(handlers, OpTypeAt(k)) # "none"
            /\ ~(failedAt = k - 1 /\ resp.status = 400)

\* C9, as claimed: every name the dispatcher resolves is an attribute of
\* exactly one handler, so the handler a call went to is the only one that
\* has the name.
C9_NoNameCollision ==
    \A c \in DOMAIN calls :
        {h \in HandlerNames : calls[c].op \in handlers[h]} = {calls[c].handler}

\* Every name a handler has or a request may use.
AllNames ==
    UNION {InitialHandlers[h] : h \in HandlerNames}
    \cup ColorProcessingMethods \cup FrequencyDomainMethods
    \cup RestorationOperationsMethods \cup {NoneType}

\* C10: whatever requests were served, the names each handler has and the
\* handler each name resolves to are those of process start.
C10_RegistryImmutable ==
    /\ handlers = InitialHandlers
    /\ \A name \in AllNames :
          Resolve(handlers, name) = Resolve(InitialHandlers, name)

C10_Witness ==
    /\ pc = "done"
    /\ nextUuid > 1
    /\ Len(calls) = 3
    /\ calls[3].op = "__init__"
    /\ resp.status = 500

\* C11, as claimed: a request of one stage that names a listed operation and
\* gives it no parameters, on a readable 3-channel image, is answered with
\* success and one entry that carries a non-empty description; the claim
\* names frequency_filter as a case.
C11_ListedOperationSucceeds ==
    (/\ pc = "done"
     /\ img # NoImage
     /\ Len(req.operations) = 1
     /\ OpTypeAt(1) \in ListedOperations(InitialHandlers)
     /\ ParamsAt(1) = {})
        => /\ resp.status = 200
           /\ Len(results) = 1
           /\ results[1].description # ""

\* C12: every result entry reports as width the number of columns and as
\* height the number of rows of the image it carries, which is the image
\* its stage returned, whether or not the stage kept the size of its input;
\* the entries of a success response are these entries.
C12_EntrySizeIsOutputSize ==
    /\ \A k \in DOMAIN results :
          /\ results[k].width = EntryImage(results[k]).w
          /\ results[k].height = EntryImage(results[k]).h
          /\ Len(EntryImage(results[k]).px) = results[k].width * results[k].height
          /\ ~Draws(OpTypeAt(k), ParamsAt(k)) =>
                LET r == Invoke(Resolve(InitialHandlers, OpTypeAt(k)),
                                OpTypeAt(k), StageInput(k), ParamsAt(k))
                IN results[k].width = r.image.w /\ results[k].height = r.image.h
    /\ pc = "done" /\ resp.status = 200 => resp.body.results = results

\* A fourier_transform stage has widened a row of 7 pixels to 8.
C12_Witness ==
    /\ pc = "done"
    /\ resp.status = 200
    /\ img.w = 7
    /\ \E k \in DOMAIN results :
          /\ OpTypeAt(k) = "fourier_transform"
          /\ StageInput(k).w = 7
          /\ results[k].width = 8
          /\ results[k].height = 1

\* C13: negative undoes itself: the negative of the negative of the source
\* image is the source image, and in a pipeline a negative stage that
\* follows a negative stage returns the image the first of them was given.
C13_NegativeInvolution ==
    /\ img # NoImage => negative(negative(img).image).image = img
    /\ \A k \in DOMAIN results :
          (k > 1 /\ OpTypeAt(k) = "negative" /\ OpTypeAt(k - 1) = "negative")
              => EntryImage(results[k]) = StageInput(k - 1)

\* The pipeline [negative, negative] has run on a pixel with the samples
\* 255 and 0.
C13_Witness ==
    /\ pc = "done"
    /\ resp.status = 200
    /\ Len(results) = 2
    /\ OpTypeAt(1) = "negative"
    /\ OpTypeAt(2) = "negative"
    /\ img = Uniform(1, 1, <<255, 0, 253>>)
    /\ EntryImage(results[1]).px[1] = <<0, 255, 2>>

Samples(image) == {image.px[k][ch] : k \in DOMAIN image.px, ch \in 1..3}

\* C15: in [grayscale, threshold(threshold_value = 127)] on a 3-channel
\* source image, the first entry has the size of the source and three equal
\* channels, and the second has the size of the source, three channels, and
\* no sample other than 0 and max_value.
C15_GrayscaleThenThreshold ==
    (/\ Len(results) >= 2
     /\ OpTypeAt(1) = "grayscale"
     /\ OpTypeAt(2) = "threshold"
     /\ ParamGet(ParamsAt(2), "threshold_value", 127) = 127)
        => LET first == EntryImage(results[1])
               second == EntryImage(results[2])
               max_value == ParamGet(ParamsAt(2), "max_value", 255)
           IN /\ first.w = img.w /\ first.h = img.h
              /\ Len(first.px) = img.w * img.h
              /\ \A k \in DOMAIN first.px :
                    /\ Len(first.px[k]) = 3
                    /\ first.px[k][1] = first.px[k][2]
                    /\ first.px[k][2] = first.px[k][3]
              /\ second.w = img.w /\ second.h = img.h
              /\ Len(second.px) = img.w * img.h
              /\ \A k \in DOMAIN second.px : Len(second.px[k]) = 3
              /\ Samples(second) \subseteq {0, max_value}
              /\ \A k \in DOMAIN second.px :
                    second.px[k][1] = (IF Luma(img.px[k]) > 127
                                       THEN max_value ELSE 0)

\* The pair has run with max_value = 200 on an image with a pixel above 127.
C15_Witness ==
    /\ pc = "done"
    /\ resp.status = 200
    /\ Len(results) >= 2
    /\ OpTypeAt(1) = "grayscale"
    /\ OpTypeAt(2) = "threshold"
    /\ ParamGet(ParamsAt(2), "max_value", 255) = 200
    /\ Samples(EntryImage(results[2])) = {200}

IsUniform(image) == \A j, k \in DOMAIN image.px : image.px[j] = image.px[k]

\* C16: erosion of an image whose pixels all are equal returns that image,
\* pixels at the border too, whatever kernel shape (an unrecognised one
\* included), kernel size and number of iterations it is given.
C16_ErosionKeepsUniform ==
    \A k \in DOMAIN results :
        (OpTypeAt(k) = "erosion" /\ IsUniform(StageInput(k)))
            => EntryImage(results[k]) = StageInput(k)

\* A cross of size 3 has eroded a uniform coloured image twice.
C16_Witness ==
    /\ pc = "done"
    /\ resp.status = 200
    /\ Len(results) = 1
    /\ OpTypeAt(1) = "erosion"
    /\ img = ImgTeal
    /\ ParamGet(ParamsAt(1), "kernel_shape", "rect") = "cross"
    /\ ParamGet(ParamsAt(1), "kernel_size", 5) = 3
    /\ ParamGet(ParamsAt(1), "iterations", 1) = 2

\* The two kinds of terminal state of a run.
Complete ==
    /\ pc = "done"
    /\ failedAt = -1
    /\ resp = SuccessResponse(results)
    /\ Len(results) = Len(req.operations)

FailedAtStage(i) ==
    /\ pc = "done"
    /\ failedAt = i
    /\ resp.status \in {400, 500}
    /\ Len(results) = i
    /\ idx = i + 2

\* C18: a run is a linear state machine. The calls made so far are those of
\* the stages 0, 1, 2, ... in this order, each once; from a stage the run
\* goes to the next stage or to a terminal state, which it leaves only by
\* returning; a terminal state is Complete or Failed(i) for one i and never
\* both; and every accepted run reaches a terminal state.
C18_LinearStateMachine ==
    /\ [](pc \in {"loop", "done"} =>
            /\ Len(calls) <= idx - 1
            /\ \A k \in DOMAIN calls : calls[k].stage = k - 1)
    /\ [](pc = "done" =>
            /\ Complete \/ \E i \in 0..(Len(req.operations) - 1) : FailedAtStage(i)
            /\ ~(Complete /\ Failed)
            /\ Cardinality({i \in 0..Len(req.operations) : FailedAtStage(i)}) <= 1)
    /\ [][pc = "loop" => \/ pc' = "loop" /\ idx' = idx + 1
                         \/ pc' = "done"]_vars
    /\ [][pc = "done" => pc' = "idle"]_vars
    /\ (pc = "load" ~> pc = "done")

\* A run of three stages has failed at its last stage, after two calls that
\* returned.
C18_Witness ==
    /\ FailedAtStage(2)
    /\ Len(calls) = 3
    /\ OpTypeAt(3) = "frequency_filter"

RECURSIVE SoloFrom(_, _, _, _)
\* The response of a run that has the server to itself, from stage k on,
\* for operations that draw nothing.
SoloFrom(operations, k, current, res) ==
    IF k > Len(operations)
    THEN SuccessResponse(res)
    ELSE LET op_type == DictGet(operations[k], "type", NoneType)
             params == DictGet(operations[k], "params", {})
             handler == Resolve(InitialHandlers, op_type)
         IN IF handler = "none"
            THEN UnknownOperation(op_type)
            ELSE LET r == Invoke(handler, op_type, current, params)
                 IN IF r.raised
                    THEN OperationError(op_type, r.cause)
                    ELSE SoloFrom(operations, k + 1, r.image,
                                  Append(res, ResultEntry(op_type, r.image,
                                                          r.description)))

SoloResponse(image, operations) == SoloFrom(operations, 1, image, <<>>)

\* Whether some stage of the list draws from np.random.
HasDraws(operations) ==
    \E k \in DOMAIN operations :
        Draws(DictGet(operations[k], "type", NoneType),
              DictGet(operations[k], "params", {}))

\* C17, as claimed: two requests served at the same time share nothing they
\* write -- the registry and numpy's generator are as they were when the
\* requests came in -- and each gets the response its request determines:
\* what it gets alone, and what the other gets if it asked the same.
C17_RunsShareNothing ==
    /\ handlers = InitialHandlers
    /\ np_random = 0
    /\ (pc = "done" /\ other.pc = "done" /\ req.operations = other.operations)
          => resp = other.resp
    /\ (pc = "done" /\ ~HasDraws(req.operations))
          => resp = SoloResponse(img, req.operations)
    /\ (other.pc = "done" /\ ~HasDraws(other.operations))
          => other.resp = SoloResponse(other.img, other.operations)

\* C17, amended: of two requests served at the same time, each whose list
\* has no stage that draws from np.random gets the response it gets alone,
\* whatever the other does; no run writes the registry or the upload folder.
\* (The runs do share numpy's generator, which watershed stages advance.)
C17_RunsWithoutDrawsIndependent ==
    /\ handlers = InitialHandlers
    /\ files = [n \in {PipelineFile} |-> files[PipelineFile]]
    /\ (pc = "done" /\ ~HasDraws(req.operations))
          => resp = SoloResponse(img, req.operations)
    /\ (other.pc = "done" /\ ~HasDraws(other.operations))
          => other.resp = SoloResponse(other.img, other.operations)

\* A run of two negative stages has ended while the other run, which began
\* with watershed, had drawn colours and not yet ended.
C17_Witness ==
    /\ pc = "done"
    /\ Len(req.operations) = 2
    /\ ~HasDraws(req.operations)
    /\ resp.status = 200
    /\ other.pc = "loop"
    /\ Len(other.results) = 1
    /\ np_random = 3

\* The calls of both runs that returned: what they were given and what
\* they gave back.
Invocations ==
    {[op |-> OpTypeAt(k), params |-> ParamsAt(k), input |-> StageInput(k),
      image |-> EntryImage(results[k]),
      description |-> results[k].description] : k \in DOMAIN results}
    \cup
    {[op |-> DictGet(other.operations[k], "type", NoneType),
      params |-> DictGet(other.operations[k], "params", {}),
      input |-> IF k = 1 THEN other.img
                ELSE EntryImage(other.results[k - 1]),
      image |-> EntryImage(other.results[k]),
      description |-> other.results[k].description] :
        k \in DOMAIN other.results}

SameCall(a, b) == a.op = b.op /\ a.params = b.params /\ a.input = b.input

C20_ListingMatchesDispatch ==
    (out # NoResponse /\ "operation_details" \in DOMAIN out.body) =>
        LET operations == out.body.operations
            operation_details == out.body.operation_details
        IN /\ \A c \in DOMAIN operations : \A name \in operations[c] :
                 /\ {d \in DOMAIN operations : name \in operations[d]} = {c}
                 /\ Resolve(handlers, name) = HandlerOfCategory(c)
                 /\ name \in DOMAIN operation_details
                 /\ operation_details[name] = c
           /\ DOMAIN operation_details =
                 UNION {operations[c] : c \in DOMAIN operations}

\* The listing has been answered, with watershed under segmentation and
\* frequency_filter under advanced, after an image was uploaded.
C20_Witness ==
    /\ out # NoResponse
    /\ "operation_details" \in DOMAIN out.body
    /\ "watershed" \in out.body.operations["segmentation"]
    /\ out.body.operation_details["frequency_filter"] = "advanced"
    /\ Cardinality(DOMAIN out.body.operation_details) = 26
    /\ nextUuid > 1

\* C21: process_image validates before it runs anything. A body without
\* 'filename' or 'operations' is answered 400 'Invalid request data'; a
\* request passes the lookup only when its filename is a file of the upload
\* folder, and is answered 404 'Image not found' otherwise; a file that
\* does not decode is answered 400 'Could not read image'; and none of
\* these answers comes after a call of a transform.
C21_ValidatedBeforeRunning ==
    [][ /\ (pc = "idle" /\ pc' = "load") => req'.filename \in DOMAIN files
        /\ (pc = "idle" /\ pc' = "done") =>
              /\ resp' \in {Error(400, <<"Invalid request data">>),
                            Error(404, <<"Image not found">>)}
              /\ calls' = <<>>
        /\ (pc = "load" /\ pc' = "done") =>
              /\ resp' = Error(400, <<"Could not read image">>)
              /\ calls' = <<>>
        /\ (pc = "load" /\ pc' = "loop") => img' # NoImage /\ calls' = <<>>
      ]_vars

\* C22: an upload that interleaves with clear_uploads still ends with its
\* success or with one of its JSON 400 errors: when clear_uploads deletes
\* the file the upload has just saved, before the upload reads it or
\* removes it, the upload does not end with the exception that removing a
\* missing file raises.
C22_UploadSurvivesClear == out # Unhandled("FileNotFoundError")

\* C23: every upload request that is answered with an error leaves the
\* upload folder holding exactly the files it held before the request (the
\* upload is served with no other request in between).
C23_FailedUploadLeavesNothing ==
    [][(UploadWhole /\ out'.status # 200) => files' = files]_vars

\* C24: a filename that a successful upload returned stays in the upload
\* folder, with its content, through every step that is not clear_uploads,
\* and a process_image request for it is answered 404 only when the file is
\* not there; clear_uploads leaves the folder without a file, and a returned
\* filename whose file is gone never gets a file again, so every later
\* process_image request for it is answered 404.
C24_ProcessableUntilCleared ==
    [][ /\ ~clear_uploads =>
              \A n \in returned \cap DOMAIN files :
                  n \in DOMAIN files' /\ files'[n] = files[n]
        /\ clear_uploads => files' = EmptyFolder
        /\ \A n \in returned \ DOMAIN files : n \notin DOMAIN files'
        /\ (pc = "idle" /\ pc' # "idle" /\ req'.filename \in returned) =>
              (resp' = Error(404, <<"Image not found">>)
                  <=> req'.filename \notin DOMAIN files)
      ]_vars

\* A returned filename was answered 404 after clear_uploads emptied the
\* folder and save_processed stored another file.
C24_Witness ==
    /\ pc = "done"
    /\ req.filename \in returned
    /\ resp.status = 404
    /\ DOMAIN files = {SavedFilename("negative", 1, ".png")}

\* C25: a process_image request that interleaves with clear_uploads ends
\* with 404 'Image not found', with 400 'Could not read image', or with the
\* response that its operations give on the source image it loaded; once
\* the image is loaded, the loss of its file changes nothing of the run.
C25_ProcessSurvivesClear ==
    (pc = "done" /\ req # NoRequest) =>
        \/ resp = Error(404, <<"Image not found">>)
        \/ resp = Error(400, <<"Could not read image">>)
        \/ img # NoImage /\ resp = SoloResponse(img, req.operations)

\* The run of an uploaded image has ended with a success of two results
\* or more while the folder, emptied since the image was loaded and while
\* the request was still being served, holds no file.
C25_Witness ==
    /\ pc = "done"
    /\ req.filename \in returned
    /\ resp.status = 200
    /\ Len(results) >= 2
    /\ files = EmptyFolder
    /\ out # NoResponse

\* C26: no step of process_image and no get_available_operations request
\* changes the upload folder, neither the set of its files nor the content
\* of one; a step that changes the folder is a step of upload_file,
\* save_processed or clear_uploads.
C26_OnlyThreeHandlersWrite ==
    [][ /\ (\/ ProcessRequest \/ ProcessLoad \/ ProcessStage
            \/ ProcessSuccess \/ ProcessReturn
            \/ get_available_operations) =>
               files' = files /\ outside' = outside
        /\ files' # files => (Upload \/ SaveProcessed \/ clear_uploads)
      ]_vars

\* A request of as many operations as a list holds has ended with success
\* and the folder still holds the one file that it read, with the content
\* that decodes to the source image.
C26_Witness ==
    /\ pc = "done"
    /\ resp.status = 200
    /\ Len(results) = MaxOps
    /\ DOMAIN files = {req.filename}
    /\ ImDecode(files[req.filename]) = img

\* C27: file access stays inside the upload folder whatever the client
\* sends as 'operation' to save_processed and as 'filename' to
\* process_image: save_processed writes no file outside the folder, and the
\* image that a process_image request works on was read from a file of the
\* folder.
C27_AccessStaysInFolder ==
    /\ DOMAIN outside = {}
    /\ pc = "loop" => Locate(req.filename).dir = "uploads"

\* C28: every process_image request that names an existing, decodable
\* image is answered with JSON, whatever its 'operations' holds: an entry
\* without 'type', an entry that is not an object and an 'operations' that
\* is not a list all end in a JSON error, and no exception escapes the
\* handler.
C28_MalformedOperationsAnswered ==
    pc = "done" =>
        /\ IsJson(resp)
        /\ (\/ ~Iterable(req)
            \/ \E k \in DOMAIN req.operations :
                  ~IsObject(req.operations[k])
                      \/ "type" \notin DOMAIN req.operations[k])
              => "error" \in DOMAIN resp.body

\* The value of the parameter that the k-th operation of the request was
\* sent with, or the default of the method.
ParamAt(k, name, default) == ParamGet(ParamsAt(k), name, default)

\* C29: adjust_brightness gives g = min(255, max(0, f + beta)) for every
\* sample f of the image and every beta from -255 to 255, so a positive
\* beta lowers no sample and a negative beta raises none.
C29_BrightnessClips ==
    (pc = "done" /\ Len(req.operations) = 1
        /\ OpTypeAt(1) = "adjust_brightness") =>
        LET beta == ParamAt(1, "beta", 50)
            g == EntryImage(results[1])
        IN /\ resp.status = 200
           /\ \A k \in DOMAIN img.px : \A ch \in 1..3 :
                 LET f == img.px[k][ch]
                 IN /\ g.px[k][ch] = Min({255, Max({0, f + beta})})
                    /\ beta > 0 => g.px[k][ch] >= f
                    /\ beta < 0 => g.px[k][ch] <= f

\* C30: gaussian_blur, median_blur and sharpen work with kernel_size when
\* it is odd and with kernel_size + 1 when it is even, whatever integer the
\* request carries: the filter runs iff that size is positive, and the
\* description of the result reports that size.
C30_KernelSizeMadeOdd ==
    (pc = "done" /\ Len(req.operations) = 1
        /\ OpTypeAt(1) \in {"gaussian_blur", "median_blur", "sharpen"}) =>
        LET given == ParamAt(1, "kernel_size",
                             IF OpTypeAt(1) = "sharpen" THEN 3 ELSE 5)
            size == IF given % 2 = 0 THEN given + 1 ELSE given
            text == CASE OpTypeAt(1) = "gaussian_blur" ->
                            "Gaussian Blur, Kernel size: "
                                \o ToString(size) \o "x" \o ToString(size)
                      [] OpTypeAt(1) = "median_blur" ->
                            "Median Blur, Kernel size: "
                                \o ToString(size) \o "x" \o ToString(size)
                      [] OpTypeAt(1) = "sharpen" ->
                            "Unsharp Masking (Sharpening), Kernel size: "
                                \o ToString(size)
        IN /\ size % 2 = 1
           /\ size > 0 <=> resp.status = 200
           /\ size > 0 => results[1].description = text
           /\ size <= 0 => resp = OperationError(OpTypeAt(1), "cv2.error")

\* median_blur has answered a request that carried the even kernel_size 2
\* with a result whose description reports the next odd size, 3.
C30_Witness ==
    /\ pc = "done"
    /\ Len(req.operations) = 1
    /\ OpTypeAt(1) = "median_blur"
    /\ ParamAt(1, "kernel_size", 5) = 2
    /\ resp.status = 200
    /\ results[1].description = "Median Blur, Kernel size: 3x3"

====
